---- MODULE Spec2Model ----
(***************************************************************************)
(* Model of the transcription pipeline of the video title generator:       *)
(* OrchestrationService.transcribe_only (app/modules/orchestration.py),    *)
(* AudioExtractionModule.extract_audio (app/modules/audio_extraction.py)   *)
(* and TranscriptionModule (app/modules/transcription.py).                 *)
(*                                                                         *)
(* One behaviour is one invocation: transcode, probe, plan the chunks,     *)
(* extract and transcribe each chunk in turn (the remote call under the    *)
(* retry decorator), merge, clean up.  The external tools (ffmpeg,         *)
(* ffprobe, the remote service) are nondeterministic in their outcomes.    *)
(*                                                                         *)
(* Times are exact rationals <<numerator, denominator>> in seconds, sizes  *)
(* are bytes; the code's floats are modelled by exact arithmetic.          *)
(***************************************************************************)
EXTENDS Integers, Sequences, FiniteSets, TLC

VARIABLES
    pc,               \* position of the invocation's control flow
    legacyBackoff,    \* which exponent the installed retry library uses
    audioSize,        \* st_size of the compressed audio, bytes
    audioDuration,    \* what ffprobe reports for the audio when it works
    audioOnDisk,      \* the compressed audio file exists
    compressedOnDisk, \* the re-compressed copy of _compress_audio exists
    planDuration,     \* total_duration inside _calculate_chunks
    plan,             \* chunks: sequence of [start, duration]
    totalDuration,    \* total_duration inside _transcribe_with_chunking
    idx,              \* loop variable i of the chunk loop (0-based)
    chunkFiles,       \* chunk_files: indices of the chunks extracted so far
    disk,             \* chunk files present in the temp directory
    tempDir,          \* "none" | "exists" | "removed"
    unlinked,         \* log of the chunk files unlinked, in order
    transcripts,      \* transcripts: the non-empty chunk texts so far
    detectedLanguage, \* detected_language (NoLang is Python's None)
    prompt,           \* prompt passed to the current remote call
    attempt,          \* attempt_number of the current remote call
    inFlight,         \* number of remote calls in flight
    waits,            \* backoff waits slept for the current remote call
    called,           \* chunk indices whose file was sent to the remote service
    chunkSize,        \* st_size of the chunk file extracted last, bytes
    lastStep,         \* the external step taken last and how it ended
    outcome,          \* what the invocation returned or raised
    scenario,         \* which inputs the environment offers in this behaviour
    videoSize,        \* st_size of the uploaded video, in MiB
    timeout,          \* timeout of the ffmpeg run of extract_audio, seconds
    videoProbe,       \* what get_video_duration returned or raised
    probeOk,          \* whether ffprobe worked in each of the two probes
    reportedDuration, \* dur: the duration the remote service reported
    firstLanguage,    \* the first language the remote service reported
    segments,         \* the stripped text of every chunk transcribed so far
    endpoint,         \* the route that started the invocation
    status,           \* the HTTP status of the response, 0 before it is sent
    videoOnDisk,      \* the uploaded copy of the video exists
    procs,            \* the invocations that run side by side, by number
    fsys              \* their shared file system: path -> asset it holds data of

vars == << pc, legacyBackoff, audioSize, audioDuration, audioOnDisk,
           compressedOnDisk, planDuration, plan, totalDuration, idx, chunkFiles, disk, tempDir,
           unlinked, transcripts, detectedLanguage, prompt, attempt, inFlight,
           waits, called, chunkSize, lastStep, outcome, scenario, videoSize,
           timeout, videoProbe, probeOk, reportedDuration, firstLanguage,
           segments, endpoint, status, videoOnDisk, procs, fsys >>

----------------------------------------------------------------------------
(* Bounds of the model *)

\* sizes go up to MaxSizeMult target chunk sizes (plus one byte)
MaxSizeMult == 2
\* durations go up to MaxDurMult maximal chunk durations (plus one second)
MaxDurMult == 2
\* uploaded videos go up to MaxVideoGB gigabytes (and a half)
MaxVideoGB == 20
\* the audio of the text scenario is split into MaxTextChunks chunks
MaxTextChunks == 3
\* the merge is applied to lists of up to MaxSegments segment texts
MaxSegments == 3

----------------------------------------------------------------------------
(* Program constants *)

MB == 1048576
MAX_FILE_SIZE_MB == 25
TARGET_CHUNK_SIZE_MB == 20
MAX_CHUNK_DURATION_SECONDS == 600
MAX_ATTEMPTS == 3
WAIT_MULTIPLIER == 1
WAIT_MIN == 2
WAIT_MAX == 10
EXP_BASE == 2
PROMPT_MIN_LEN == 50
PROMPT_TAIL == 200
BASE_TIMEOUT_SECONDS == 300
TIMEOUT_PER_GB == 180
MAX_TIMEOUT_SECONDS == 3600
MB_PER_GB == 1024
MAX_UPLOAD_SIZE_MB == 5000

NoLang == "None"
FALLBACK_LANGUAGE == "en"

----------------------------------------------------------------------------
(* Exact rational arithmetic for the code's float seconds *)

Max(a, b) == IF a >= b THEN a ELSE b
Min(a, b) == IF a <= b THEN a ELSE b

RECURSIVE GCD(_, _)
GCD(a, b) == IF b = 0 THEN a ELSE GCD(b, a % b)

Norm(n, d) ==
    LET g == GCD(IF n < 0 THEN -n ELSE n, d)
    IN  IF g = 0 THEN <<0, 1>> ELSE << n \div g, d \div g >>

Rat(n) == <<n, 1>>
Zero == Rat(0)
RAdd(a, b) == Norm(a[1] * b[2] + b[1] * a[2], a[2] * b[2])
RSub(a, b) == Norm(a[1] * b[2] - b[1] * a[2], a[2] * b[2])
RMulInt(k, a) == Norm(k * a[1], a[2])
RDivInt(a, k) == Norm(a[1], a[2] * k)
RLe(a, b) == a[1] * b[2] <= b[1] * a[2]

\* math.ceil(a / b) for integers a >= 0, b > 0
CeilDiv(a, b) == (a + b - 1) \div b
\* math.ceil(r / k) for a rational r >= 0 and an integer k > 0
RCeilDivInt(r, k) == CeilDiv(r[1], r[2] * k)

RECURSIVE SumDurations(_, _)
SumDurations(chunks, n) ==
    IF n = 0 THEN Zero
    ELSE RAdd(SumDurations(chunks, n - 1), chunks[n].duration)

----------------------------------------------------------------------------
(* Text: a Python str is a sequence of one-character strings *)

Whitespace == {" ", "\n", "\t"}

RECURSIVE LStrip(_)
LStrip(s) ==
    IF s = <<>> THEN s
    ELSE IF Head(s) \in Whitespace THEN LStrip(Tail(s)) ELSE s

RECURSIVE RStrip(_)
RStrip(s) ==
    IF s = <<>> THEN s
    ELSE IF s[Len(s)] \in Whitespace THEN RStrip(SubSeq(s, 1, Len(s) - 1)) ELSE s

\* str.strip()
Strip(s) == RStrip(LStrip(s))

\* faulty variant: the parts are joined without a separator
RECURSIVE JoinNoSeparator(_)
JoinNoSeparator(parts) ==
    IF parts = <<>> THEN <<>> ELSE Head(parts) \o JoinNoSeparator(Tail(parts))

\* " ".join(parts)
RECURSIVE Join(_)
Join(parts) ==
    IF parts = <<>> THEN <<>>
    ELSE IF Len(parts) = 1 THEN parts[1]
    ELSE parts[1] \o <<" ">> \o Join(Tail(parts))

\* "  " in s
HasDoubleSpace(s) == \E k \in 1..(Len(s) - 1) : s[k] = " " /\ s[k + 1] = " "

\* s.replace("  ", " "): one left-to-right pass over non-overlapping matches
RECURSIVE ReplaceDoubleSpace(_)
ReplaceDoubleSpace(s) ==
    IF Len(s) < 2 THEN s
    ELSE IF s[1] = " " /\ s[2] = " "
         THEN <<" ">> \o ReplaceDoubleSpace(SubSeq(s, 3, Len(s)))
         ELSE <<s[1]>> \o ReplaceDoubleSpace(Tail(s))

\* while "  " in s: s = s.replace("  ", " ")
RECURSIVE CollapseSpaces(_)
CollapseSpaces(s) ==
    IF HasDoubleSpace(s) THEN CollapseSpaces(ReplaceDoubleSpace(s)) ELSE s

\* len(s.split()): the words are the maximal runs without whitespace, counted
\* by the positions where one ends
WordCount(s) ==
    Cardinality({ k \in 1..Len(s) :
                    /\ s[k] \notin Whitespace
                    /\ (k = Len(s) \/ s[k + 1] \in Whitespace) })

\* s[-n:]
LastChars(s, n) == IF Len(s) <= n THEN s ELSE SubSeq(s, Len(s) - n + 1, Len(s))

\* faulty variant: replace is called once, not until no double space is left
MergeTextOnePass(ts) == ReplaceDoubleSpace(Join(ts))

\* " ".join(transcripts) with the double spaces removed
MergeText(ts) == CollapseSpaces(Join(ts))

\* language=detected_language or 'en'
ResultLanguage(detected) == IF detected = NoLang THEN FALLBACK_LANGUAGE ELSE detected

----------------------------------------------------------------------------
(* ChunkPlanner: TranscriptionModule._calculate_chunks *)

\* faulty variant: the size is compared with the ceiling of the remote service
NoChunkingNeededUpToCeiling(sizeBytes) == sizeBytes <= MAX_FILE_SIZE_MB * MB

\* file_size_mb <= TARGET_CHUNK_SIZE_MB
NoChunkingNeeded(sizeBytes) == sizeBytes <= TARGET_CHUNK_SIZE_MB * MB

\* faulty variant: the duration-based count is forgotten
NumChunksSizeOnly(total, sizeBytes) ==
    CeilDiv(sizeBytes, TARGET_CHUNK_SIZE_MB * MB)

\* num_chunks = max(ceil(size / target), ceil(total / max_chunk_duration))
NumChunks(total, sizeBytes) ==
    Max(CeilDiv(sizeBytes, TARGET_CHUNK_SIZE_MB * MB),
        RCeilDivInt(total, MAX_CHUNK_DURATION_SECONDS))

\* faulty variant: the loop index taken 1-based
ChunkStartOffByOne(i, chunkDuration) == RMulInt(i + 1, chunkDuration)

\* start_time = i * chunk_duration (i is 0-based)
ChunkStart(i, chunkDuration) == RMulInt(i, chunkDuration)

\* the last chunk gets the remaining duration
ChunkLength(i, numChunks, total, chunkDuration) ==
    IF i = numChunks - 1
    THEN RSub(total, ChunkStart(i, chunkDuration))
    ELSE chunkDuration

CalculateChunks(total, sizeBytes) ==
    IF NoChunkingNeeded(sizeBytes)
    THEN << [start |-> Zero, duration |-> total] >>
    ELSE LET numChunks == NumChunks(total, sizeBytes)
             chunkDuration == RDivInt(total, numChunks)
         IN  [ k \in 1..numChunks |->
                 [ start    |-> ChunkStart(k - 1, chunkDuration),
                   duration |-> ChunkLength(k - 1, numChunks, total, chunkDuration) ] ]

----------------------------------------------------------------------------
(* RetryPolicy: the decorator of TranscriptionModule._call_groq_whisper *)

RECURSIVE Pow(_, _)
Pow(b, e) == IF e <= 0 THEN 1 ELSE b * Pow(b, e - 1)

\* faulty variant: the min=2 floor is dropped
WaitExponentialNoMin(n, legacy) ==
    Min(WAIT_MULTIPLIER * Pow(EXP_BASE, IF legacy THEN n ELSE n - 1), WAIT_MAX)

\* wait_exponential(multiplier=1, min=2, max=10) after failed attempt n.  The
\* library raises exp_base to n - 1; its releases before 8.0 raised it to n.
WaitExponential(n, legacy) ==
    LET exp    == Pow(EXP_BASE, IF legacy THEN n ELSE n - 1)
        result == WAIT_MULTIPLIER * exp
    IN  Max(Max(0, WAIT_MIN), Min(result, WAIT_MAX))

\* faulty variant: one attempt too many
StopAfterAttemptLate(n) == n > MAX_ATTEMPTS

\* stop_after_attempt(3)
StopAfterAttempt(n) == n >= MAX_ATTEMPTS

----------------------------------------------------------------------------
(* AudioTranscoder: AudioExtractionModule._calculate_timeout *)

\* faulty variant: the cap is forgotten
CalculateTimeoutUncapped(sizeMiB) ==
    BASE_TIMEOUT_SECONDS + (sizeMiB * TIMEOUT_PER_GB) \div MB_PER_GB

\* timeout = BASE_TIMEOUT_SECONDS + int(size_gb * TIMEOUT_PER_GB), capped at
\* one hour.  The size is a whole number of MiB, size_gb = sizeMiB / 1024, and
\* int() drops the fraction of a second.
CalculateTimeout(sizeMiB) ==
    Min(BASE_TIMEOUT_SECONDS + (sizeMiB * TIMEOUT_PER_GB) \div MB_PER_GB,
        MAX_TIMEOUT_SECONDS)

----------------------------------------------------------------------------
(* MediaProbe: get_video_duration and _get_audio_duration run ffprobe *)

\* how a run of ffprobe can end
ProbeOutcomes ==
    {"ok", "nonzero", "empty", "unparsable", "timeout", "not_launchable"}

\* the exception the body of the try block raises, if any: subprocess.run
\* raises TimeoutExpired at the timeout and FileNotFoundError when ffprobe
\* cannot be started, float() raises ValueError on unparsable output
ProbeException(o) ==
    CASE o = "timeout"        -> "TimeoutExpired"
      [] o = "not_launchable" -> "FileNotFoundError"
      [] o = "unparsable"     -> "ValueError"
      [] OTHER                -> "none"

ProbeValue(d) == [kind |-> "value", value |-> d]
ProbeRaised(ex) == [kind |-> "error", type |-> ex]

\* what the try block returns when nothing is raised: the parsed duration
\* when returncode == 0 and stdout is not empty, else 0.0
ProbeBody(o, d) == IF o = "ok" THEN ProbeValue(d) ELSE ProbeValue(Zero)

\* faulty variant: a failed run reports the duration all the same
GetAudioDurationStale(o, d) == ProbeValue(d)

\* TranscriptionModule._get_audio_duration: a bare except swallows everything
GetAudioDuration(o, d) ==
    IF ProbeException(o) = "none" THEN ProbeBody(o, d) ELSE ProbeValue(Zero)

\* AudioExtractionModule.get_video_duration: only TimeoutExpired and
\* ValueError are caught
GetVideoDuration(o, d) ==
    LET ex == ProbeException(o)
    IN  IF ex = "none" THEN ProbeBody(o, d)
        ELSE IF ex \in {"TimeoutExpired", "ValueError"} THEN ProbeValue(Zero)
        ELSE ProbeRaised(ex)

----------------------------------------------------------------------------
(* Inputs *)

\* sizes of the uploaded video in MiB: around every whole gigabyte, and the
\* smallest size whose timeout reaches the cap
CapSizeMiB ==
    CeilDiv((MAX_TIMEOUT_SECONDS - BASE_TIMEOUT_SECONDS) * MB_PER_GB, TIMEOUT_PER_GB)

VideoSizes ==
    ({ k * MB_PER_GB + d : k \in 0..MaxVideoGB, d \in {0, 1, MB_PER_GB \div 2} }
        \cup {CapSizeMiB - 1, CapSizeMiB}) \ {0}

\* sizes of the compressed audio around the planner's thresholds; in the text
\* scenario one size, which the planner splits into MaxTextChunks chunks
Sizes ==
    IF scenario = "texts"
    THEN { (MaxTextChunks - 1) * TARGET_CHUNK_SIZE_MB * MB + 1 }
    ELSE IF scenario = "routes"
    THEN { 1, TARGET_CHUNK_SIZE_MB * MB + 1 }
    ELSE {1, MAX_FILE_SIZE_MB * MB, MAX_FILE_SIZE_MB * MB + 1}
         \cup { k * TARGET_CHUNK_SIZE_MB * MB + d : k \in 1..MaxSizeMult, d \in {0, 1} }

\* sizes of the file ffmpeg leaves when it exits 0: it may be empty
OutputSizes == Sizes \cup {0}

\* durations ffprobe may report, around the multiples of the maximal chunk duration
Durations ==
    IF scenario \in {"texts", "routes"}
    THEN { Rat(MAX_CHUNK_DURATION_SECONDS) }
    ELSE { Rat(k * MAX_CHUNK_DURATION_SECONDS + d) : k \in 0..MaxDurMult, d \in {0, 1} }

\* sizes of an extracted chunk file, at and just above the remote ceiling
ChunkSizes == {MAX_FILE_SIZE_MB * MB, MAX_FILE_SIZE_MB * MB + 1}

Letters == <<"a", "b", "c", "d", "e", "f", "g", "h">>

Repeat(c, n) == [ k \in 1..n |-> c ]

\* texts of the text scenario for chunk i: nothing, a text of 50 characters, one
\* of 51, and one of 201 whose first character differs from the other 200
LongTexts(i) ==
    { <<" ">>,
      Repeat(Letters[i + 1], PROMPT_MIN_LEN),
      Repeat(Letters[i + 1], PROMPT_MIN_LEN + 1),
      <<"x">> \o Repeat(Letters[i + 1], PROMPT_TAIL) }

\* texts the remote service may return for chunk i (0-based)
ResponseTexts(i) ==
    IF scenario = "texts" THEN LongTexts(i) ELSE { <<" ">>, <<Letters[i + 1], " ">> }
ResponseLanguages == {NoLang, "fr"}
ResponseDurations == {Zero, Rat(7)}

Responses(i) ==
    [ text : ResponseTexts(i), language : ResponseLanguages, duration : ResponseDurations ]

----------------------------------------------------------------------------
(* Outcomes *)

NoOutcome == [kind |-> "none"]
Raised(type, reason) == [kind |-> "error", type |-> type, reason |-> reason]

\* TranscriptResult(text, language, duration_seconds, word_count)
TranscriptResult(text, language, duration, wordCount) ==
    [kind |-> "result", text |-> text, language |-> language,
     duration_seconds |-> duration, word_count |-> wordCount]

\* faulty variant: an error is swallowed and the texts gathered so far are returned
TranscribeOutcomePartial(r) ==
    IF r.kind = "result"
    THEN r
    ELSE TranscriptResult(MergeText(transcripts), ResultLanguage(detectedLanguage),
                          totalDuration, WordCount(MergeText(transcripts)))

\* faulty variant: the result is not tested for an empty text
TranscribeOutcomeNoEmptyCheck(r) ==
    IF r.kind = "result" \/ r.type = "TranscriptionError"
    THEN r
    ELSE Raised("TranscriptionError", "transcription_failed")

\* transcribe(): an empty result raises, TranscriptionError passes through,
\* any other exception is wrapped into TranscriptionError
TranscribeOutcome(r) ==
    IF r.kind = "result"
    THEN IF Strip(r.text) = <<>>
         THEN Raised("TranscriptionError", "empty_result")
         ELSE r
    ELSE IF r.type = "TranscriptionError"
         THEN r
         ELSE Raised("TranscriptionError", "transcription_failed")

----------------------------------------------------------------------------
(* State machine *)

\* The state when transcribe_only is entered with an uploaded video of one of
\* the sizes vs, in the scenario sc
Start(sc, vs) ==
    /\ endpoint = "transcribe"
    /\ status = 0
    /\ videoOnDisk = TRUE
    /\ procs = <<>>
    /\ fsys = <<>>
    /\ scenario = sc
    /\ videoSize \in vs
    /\ timeout = 0
    /\ videoProbe = NoOutcome
    /\ probeOk = <<>>
    /\ reportedDuration = Zero
    /\ firstLanguage = NoLang
    /\ segments = <<>>
    /\ pc = "start"
    /\ legacyBackoff \in BOOLEAN
    /\ audioSize = 0
    /\ audioDuration = Zero
    /\ audioOnDisk = FALSE
    /\ compressedOnDisk = FALSE
    /\ planDuration = Zero
    /\ plan = <<>>
    /\ totalDuration = Zero
    /\ idx = 0
    /\ chunkFiles = <<>>
    /\ disk = {}
    /\ tempDir = "none"
    /\ unlinked = <<>>
    /\ transcripts = <<>>
    /\ detectedLanguage = NoLang
    /\ prompt = <<>>
    /\ attempt = 0
    /\ inFlight = 0
    /\ waits = <<>>
    /\ called = {}
    /\ chunkSize = 0
    /\ lastStep = "none"
    /\ outcome = NoOutcome

\* an invocation on a video of 2 GB, with the audio sizes around the thresholds
Init == Start("sizes", {2 * MB_PER_GB})

\* an invocation whose audio is split into MaxTextChunks chunks of long texts
TextInit == Start("texts", {2 * MB_PER_GB})

\* the audio extraction module on videos of every size
ExtractionInit == Start("sizes", VideoSizes)

\* OrchestrationService.transcribe_only: extract_audio succeeds or raises.  When
\* it raises, audio_path is still None and the finally block cleans nothing.
\* extract_audio returns the path when ffmpeg exits 0 and the output exists,
\* whatever its size.
Transcode ==
    /\ pc = "start"
    /\ \E res \in {"ok", "nonzero", "timeout", "no_output"} :
         \E partial \in BOOLEAN, size \in OutputSizes, dur \in Durations :
           IF res = "ok"
           THEN /\ audioOnDisk' = TRUE
                /\ videoOnDisk' = videoOnDisk
                /\ audioSize' = size
                /\ audioDuration' = dur
                /\ pc' = "transcribe"
                /\ lastStep' = "transcode_ok"
                /\ outcome' = outcome
           ELSE /\ audioOnDisk' = (res # "no_output" /\ partial)
                /\ videoOnDisk' = FALSE
                /\ UNCHANGED << audioSize, audioDuration >>
                /\ pc' = "failed"
                /\ lastStep' = "transcode_failed"
                /\ outcome' = Raised("AudioExtractionError", res)
    /\ timeout' = CalculateTimeout(videoSize)
    /\ UNCHANGED << endpoint, status, procs, fsys >>
    /\ UNCHANGED << scenario, videoSize, videoProbe, probeOk,
                    reportedDuration, firstLanguage, segments >>
    /\ UNCHANGED << legacyBackoff, compressedOnDisk, planDuration, plan,
                    totalDuration, idx, chunkFiles, disk, tempDir, unlinked,
                    transcripts, detectedLanguage, prompt, attempt, inFlight,
                    waits, called, chunkSize >>

\* The end of the transcription: transcribe() maps what _transcribe_with_chunking
\* returned or raised.  transcribe_only ends here and its finally block removes
\* the audio file and the uploaded video; process_video ends here when
\* transcribe raised, and goes on to the trends and the titles otherwise.
Finish(r) ==
    LET o == TranscribeOutcome(r)
        more == o.kind = "result" /\ endpoint = "generate-titles"
    IN  /\ outcome' = o
        /\ pc' = IF more THEN "titles" ELSE IF o.kind = "result" THEN "done" ELSE "failed"
        /\ audioOnDisk' = more
        /\ videoOnDisk' = more

\* TranscriptionModule.transcribe up to the call of _transcribe_with_chunking
TranscribeEntry ==
    /\ pc = "transcribe"
    /\ \E configured \in BOOLEAN :
         IF configured
         THEN /\ pc' = "plan"
              /\ UNCHANGED << outcome, audioOnDisk, videoOnDisk >>
         ELSE /\ pc' = "failed"
              /\ outcome' = Raised("TranscriptionError", "not_configured")
              /\ audioOnDisk' = FALSE
              /\ videoOnDisk' = FALSE
    /\ UNCHANGED << endpoint, status, procs, fsys >>
    /\ UNCHANGED << scenario, videoSize, timeout, videoProbe,
                    probeOk, reportedDuration, firstLanguage, segments >>
    /\ UNCHANGED << legacyBackoff, audioSize, audioDuration, compressedOnDisk,
                    planDuration, plan, totalDuration, idx, chunkFiles, disk,
                    tempDir, unlinked, transcripts, detectedLanguage, prompt,
                    attempt, inFlight, waits, called, chunkSize, lastStep >>

\* _get_audio_duration: the reported duration, or 0.0 when ffprobe fails
ProbeResults == { GetAudioDuration(o, audioDuration).value : o \in ProbeOutcomes }

\* _transcribe_with_chunking up to the first remote call or chunk extraction.
\* A single-chunk plan of a file above the ceiling is first re-compressed
\* (_compress_audio), which raises TranscriptionError when ffmpeg fails.
PlanChunks ==
    /\ pc = "plan"
    /\ \E o1 \in ProbeOutcomes, o2 \in ProbeOutcomes, compressOk \in BOOLEAN :
         LET d1 == GetAudioDuration(o1, audioDuration).value
             d2 == GetAudioDuration(o2, audioDuration).value
             chunks == CalculateChunks(d1, audioSize)
             single == Len(chunks) = 1
             compress == single /\ audioSize > MAX_FILE_SIZE_MB * MB
         IN  /\ probeOk' = << o1 = "ok", o2 = "ok" >>
             /\ planDuration' = d1
             /\ plan' = chunks
             /\ totalDuration' = d2
             /\ tempDir' = IF single THEN tempDir ELSE "exists"
             /\ IF compress /\ ~compressOk
                THEN /\ Finish(Raised("TranscriptionError", "compression_failed"))
                     /\ compressedOnDisk' = compressedOnDisk
                     /\ lastStep' = "compress_failed"
                ELSE /\ pc' = IF single THEN "call" ELSE "extract"
                     /\ compressedOnDisk' = compress
                     /\ UNCHANGED << outcome, audioOnDisk, videoOnDisk, lastStep >>
    /\ UNCHANGED << endpoint, status, procs, fsys >>
    /\ UNCHANGED << scenario, videoSize, timeout, videoProbe,
                    reportedDuration, firstLanguage, segments >>
    /\ UNCHANGED << legacyBackoff, audioSize, audioDuration, idx, chunkFiles,
                    disk, unlinked, transcripts, detectedLanguage, prompt,
                    attempt, inFlight, waits, called, chunkSize >>

Range(f) == { f[k] : k \in DOMAIN f }

\* faulty variant: the finally block removes nothing
CleanupNothing(files, dsk) ==
    /\ unlinked' = unlinked
    /\ disk' = dsk
    /\ tempDir' = "exists"

\* The finally block of _transcribe_with_chunking: unlink every file of
\* chunk_files that exists, then rmdir, which fails on a non-empty directory.
Cleanup(files, dsk) ==
    LET left == dsk \ Range(files)
    IN  /\ unlinked' = unlinked \o SelectSeq(files, LAMBDA f : f \in dsk)
        /\ disk' = left
        /\ tempDir' = IF left = {} THEN "removed" ELSE "exists"

\* faulty variant: the test of the length of the previous text is dropped
ContinuityPromptAnyLength(ts) ==
    IF ts # <<>> THEN LastChars(ts[Len(ts)], PROMPT_TAIL) ELSE <<>>

\* prompt = transcripts[-1][-200:] if transcripts and len(transcripts[-1]) > 50
ContinuityPrompt(ts) ==
    IF ts # <<>> /\ Len(ts[Len(ts)]) > PROMPT_MIN_LEN
    THEN LastChars(ts[Len(ts)], PROMPT_TAIL)
    ELSE <<>>

\* faulty variant: the guard compares with the next whole megabyte
ChunkTooLargeLax(sizeBytes) == sizeBytes > (MAX_FILE_SIZE_MB + 1) * MB

\* the chunk size guard: chunk_size > MAX_FILE_SIZE_MB
ChunkTooLarge(sizeBytes) == sizeBytes > MAX_FILE_SIZE_MB * MB

\* chunk_files after _extract_audio_chunk: the path is appended only when the
\* extraction returned
ExtractedFiles(files, i, res) == IF res = "ok" THEN Append(files, i) ELSE files

\* One iteration of the chunk loop up to the remote call: _extract_audio_chunk,
\* the size guard and the continuity prompt.  ffmpeg may leave a partial output
\* file when it exits non-zero or is killed at the timeout.
ExtractChunk ==
    /\ pc = "extract"
    /\ \E res \in {"ok", "nonzero", "timeout"}, partial \in BOOLEAN, size \in ChunkSizes :
         LET disk1  == IF res = "ok" \/ partial THEN disk \cup {idx} ELSE disk
             files1 == ExtractedFiles(chunkFiles, idx, res)
             raised == IF res = "nonzero"
                       THEN Raised("TranscriptionError", "chunk_extraction_failed")
                       ELSE IF res = "timeout"
                       THEN Raised("TranscriptionError", "chunk_extraction_timeout")
                       ELSE IF ChunkTooLarge(size)
                       THEN Raised("TranscriptionError", "chunk_too_large")
                       ELSE NoOutcome
         IN  /\ chunkFiles' = files1
             /\ chunkSize' = IF res = "ok" THEN size ELSE chunkSize
             /\ lastStep' = IF res # "ok" THEN "extract_failed"
                             ELSE IF raised.kind = "none" THEN "extract_ok"
                             ELSE "chunk_too_large"
             /\ IF raised.kind = "none"
                THEN /\ disk' = disk1
                     /\ prompt' = ContinuityPrompt(transcripts)
                     /\ pc' = "call"
                     /\ UNCHANGED << tempDir, unlinked, outcome, audioOnDisk, videoOnDisk >>
                ELSE /\ Cleanup(files1, disk1)
                     /\ Finish(raised)
                     /\ prompt' = prompt
    /\ UNCHANGED << endpoint, status, procs, fsys >>
    /\ UNCHANGED << scenario, videoSize, timeout, videoProbe,
                    probeOk, reportedDuration, firstLanguage, segments >>
    /\ UNCHANGED << legacyBackoff, audioSize, audioDuration, compressedOnDisk,
                    planDuration, plan, totalDuration, idx, transcripts,
                    detectedLanguage, attempt, inFlight, waits, called >>

\* An attempt of _call_groq_whisper starts: the file goes to the remote service
CallStart ==
    /\ pc \in {"call", "retry"}
    /\ attempt' = IF pc = "call" THEN 1 ELSE attempt + 1
    /\ waits' = IF pc = "call" THEN <<>> ELSE waits
    /\ inFlight' = inFlight + 1
    /\ called' = called \cup {idx}
    /\ pc' = "inflight"
    /\ lastStep' = "call_started"
    /\ UNCHANGED << endpoint, status, procs, fsys >>
    /\ UNCHANGED << scenario, videoSize, timeout, videoProbe,
                    probeOk, reportedDuration, firstLanguage, segments >>
    /\ UNCHANGED << legacyBackoff, audioSize, audioDuration, audioOnDisk, videoOnDisk,
                    compressedOnDisk, planDuration, plan, totalDuration, idx,
                    chunkFiles, disk, tempDir, unlinked, transcripts,
                    detectedLanguage, prompt, chunkSize, outcome >>

\* What leaving _transcribe_with_chunking removes: the chunk files and their
\* directory on the multi-chunk path, the re-compressed copy on the other
LeaveChunking ==
    IF Len(plan) = 1
    THEN /\ compressedOnDisk' = FALSE
         /\ UNCHANGED << disk, tempDir, unlinked >>
    ELSE /\ Cleanup(chunkFiles, disk)
         /\ compressedOnDisk' = compressedOnDisk

\* The attempt raises.  After the last attempt the decorator raises RetryError,
\* otherwise it sleeps and tries again.
CallFail ==
    /\ pc = "inflight"
    /\ inFlight' = inFlight - 1
    /\ IF StopAfterAttempt(attempt)
       THEN /\ LeaveChunking
            /\ Finish(Raised("RetryError", "retries_exhausted"))
            /\ lastStep' = "retries_exhausted"
       ELSE /\ pc' = "backoff"
            /\ lastStep' = "call_error"
            /\ UNCHANGED << disk, tempDir, unlinked, compressedOnDisk, outcome,
                            audioOnDisk, videoOnDisk >>
    /\ UNCHANGED << endpoint, status, procs, fsys >>
    /\ UNCHANGED << scenario, videoSize, timeout, videoProbe,
                    probeOk, reportedDuration, firstLanguage, segments >>
    /\ UNCHANGED << legacyBackoff, audioSize, audioDuration, planDuration, plan,
                    totalDuration, idx, chunkFiles, transcripts,
                    detectedLanguage, prompt, attempt, waits, called, chunkSize >>

\* faulty variant: after the sleep the chunks are planned again
BackoffReplans ==
    /\ pc = "backoff"
    /\ waits' = Append(waits, WaitExponential(attempt, legacyBackoff))
    /\ pc' = "plan"
    /\ UNCHANGED << endpoint, status, procs, fsys, scenario, videoSize, timeout,
                    videoProbe, probeOk, reportedDuration, firstLanguage,
                    segments, legacyBackoff, audioSize, audioDuration,
                    audioOnDisk, videoOnDisk, compressedOnDisk, planDuration,
                    plan, totalDuration, idx, chunkFiles, disk, tempDir,
                    unlinked, transcripts, detectedLanguage, prompt, attempt,
                    inFlight, called, chunkSize, lastStep, outcome >>

\* The decorator's sleep between two attempts
Backoff ==
    /\ pc = "backoff"
    /\ waits' = Append(waits, WaitExponential(attempt, legacyBackoff))
    /\ pc' = "retry"
    /\ UNCHANGED << endpoint, status, procs, fsys >>
    /\ UNCHANGED << scenario, videoSize, timeout, videoProbe,
                    probeOk, reportedDuration, firstLanguage, segments >>
    /\ UNCHANGED << legacyBackoff, audioSize, audioDuration, audioOnDisk, videoOnDisk,
                    compressedOnDisk, planDuration, plan, totalDuration, idx,
                    chunkFiles, disk, tempDir, unlinked, transcripts,
                    detectedLanguage, prompt, attempt, inFlight, called,
                    chunkSize, lastStep, outcome >>

\* _transcribe_single_file on the response: (text, detected_lang, duration)
SegmentText(r) == Strip(r.text)
SegmentLanguage(r) == IF r.language = NoLang THEN FALLBACK_LANGUAGE ELSE r.language

\* faulty variant: the probed duration is never used
SingleDurationRemoteOnly(dur, total) == dur

\* duration_seconds of the single-chunk result: dur or total_duration
SingleDuration(dur, total) == IF dur # Zero THEN dur ELSE total

\* faulty variant: the text is put in front
PrependText(ts, text) == IF text # <<>> THEN <<text>> \o ts ELSE ts

\* faulty variant: an empty text is kept too
AppendTextAlways(ts, text) == Append(ts, text)

\* if text: transcripts.append(text)
AppendText(ts, text) == IF text # <<>> THEN Append(ts, text) ELSE ts

\* if not detected_language and lang: detected_language = lang
DetectLanguage(detected, lang) ==
    IF detected = NoLang /\ lang # NoLang THEN lang ELSE detected

\* The attempt returns.  On the single-chunk path the result is built at once;
\* in the chunk loop the text is kept and the loop goes on (after a sleep of
\* 0.5 s when a chunk is left).
CallSucceed ==
    /\ pc = "inflight"
    /\ inFlight' = inFlight - 1
    /\ lastStep' = "call_ok"
    /\ \E r \in Responses(idx) :
         LET text == SegmentText(r)
             lang == SegmentLanguage(r)
         IN  /\ segments' = Append(segments, text)
             /\ firstLanguage' = IF firstLanguage = NoLang THEN r.language
                                                            ELSE firstLanguage
             /\ IF Len(plan) = 1
                THEN /\ LeaveChunking
                     /\ reportedDuration' = r.duration
                     /\ Finish(TranscriptResult(text, lang,
                                   SingleDuration(r.duration, totalDuration),
                                   WordCount(text)))
                     /\ UNCHANGED << transcripts, detectedLanguage, idx >>
                ELSE /\ transcripts' = AppendText(transcripts, text)
                     /\ detectedLanguage' = DetectLanguage(detectedLanguage, lang)
                     /\ idx' = idx + 1
                     /\ pc' = IF idx + 1 < Len(plan) THEN "extract" ELSE "merge"
                     /\ UNCHANGED << disk, tempDir, unlinked, compressedOnDisk,
                                     outcome, audioOnDisk, videoOnDisk, reportedDuration >>
    /\ UNCHANGED << endpoint, status, procs, fsys >>
    /\ UNCHANGED << scenario, videoSize, timeout, videoProbe,
                    probeOk >>
    /\ UNCHANGED << legacyBackoff, audioSize, audioDuration, planDuration, plan,
                    totalDuration, chunkFiles, prompt, attempt, waits, called,
                    chunkSize >>

\* After the loop: merge, build the result, run the finally block, return
Merge ==
    /\ pc = "merge"
    /\ LET full == MergeText(transcripts)
       IN  Finish(TranscriptResult(full, ResultLanguage(detectedLanguage),
                                   totalDuration, WordCount(full)))
    /\ Cleanup(chunkFiles, disk)
    /\ UNCHANGED << endpoint, status, procs, fsys >>
    /\ UNCHANGED << scenario, videoSize, timeout, videoProbe,
                    probeOk, reportedDuration, firstLanguage, segments >>
    /\ UNCHANGED << legacyBackoff, audioSize, audioDuration, compressedOnDisk,
                    planDuration, plan, totalDuration, idx, chunkFiles,
                    transcripts, detectedLanguage, prompt, attempt, inFlight,
                    waits, called, chunkSize, lastStep >>

Next ==
    \/ Transcode
    \/ TranscribeEntry
    \/ PlanChunks
    \/ ExtractChunk
    \/ CallStart
    \/ CallFail
    \/ Backoff
    \/ CallSucceed
    \/ Merge

Spec == Init /\ [][Next]_vars

\* the same invocation on the long texts of the text scenario
TextSpec == TextInit /\ [][Next]_vars

----------------------------------------------------------------------------
(* The routes: upload, pipeline, trends and titles, HTTP response *)

Endpoints == {"generate-titles", "transcribe"}

\* sizes of the uploaded stream in MiB, around the configured maximum
UploadSizes == {1, MAX_UPLOAD_SIZE_MB, MAX_UPLOAD_SIZE_MB + 1}

\* HTTPException(status_code=code)
HttpError(code, reason) ==
    [kind |-> "error", type |-> "HTTPException", reason |-> reason,
     status_code |-> code]

\* total_size > self.max_size_bytes, the stream being read in pieces of 1 MiB
UploadTooLarge(sizeMiB) == sizeMiB > MAX_UPLOAD_SIZE_MB

\* what save_upload raises: 400 for an extension that is not allowed, 413 for
\* a stream above the maximum; nothing when the file was saved
SaveUploadOutcome(validExtension, sizeMiB) ==
    IF ~validExtension THEN HttpError(400, "invalid_extension")
    ELSE IF UploadTooLarge(sizeMiB) THEN HttpError(413, "too_large")
    ELSE NoOutcome

\* VideoUploadModule.save_upload, the first step of process_video and of
\* transcribe_only.  The file of a stream that is too large is unlinked before
\* the exception is raised; video_path is still None, so the finally block of
\* the service has nothing to clean.
SaveUpload ==
    /\ pc = "upload"
    /\ \E validExtension \in BOOLEAN :
         LET r == SaveUploadOutcome(validExtension, videoSize)
         IN  IF r.kind = "none"
             THEN /\ pc' = "start"
                  /\ videoOnDisk' = TRUE
                  /\ outcome' = outcome
             ELSE /\ pc' = "failed"
                  /\ videoOnDisk' = FALSE
                  /\ outcome' = r
    /\ UNCHANGED << endpoint, status, procs, fsys, scenario, videoSize, timeout,
                    videoProbe, probeOk, reportedDuration, firstLanguage,
                    segments, legacyBackoff, audioSize, audioDuration,
                    audioOnDisk, compressedOnDisk, planDuration, plan,
                    totalDuration, idx, chunkFiles, disk, tempDir, unlinked,
                    transcripts, detectedLanguage, prompt, attempt, inFlight,
                    waits, called, chunkSize, lastStep >>

\* Steps 4 and 5 of process_video: the trends are fetched and the titles are
\* generated, or one of the two raises; then the finally block removes the
\* audio file and the uploaded video.
GenerateTitles ==
    /\ pc = "titles"
    /\ \E res \in {"ok", "title_generation_failed", "unexpected"} :
         /\ pc' = IF res = "ok" THEN "done" ELSE "failed"
         /\ outcome' = IF res = "ok" THEN outcome
                        ELSE IF res = "unexpected" THEN Raised("Exception", res)
                        ELSE Raised("TitleGenerationError", res)
    /\ audioOnDisk' = FALSE
    /\ videoOnDisk' = FALSE
    /\ UNCHANGED << endpoint, status, procs, fsys, scenario, videoSize, timeout,
                    videoProbe, probeOk, reportedDuration, firstLanguage,
                    segments, legacyBackoff, audioSize, audioDuration,
                    compressedOnDisk, planDuration, plan, totalDuration, idx,
                    chunkFiles, disk, tempDir, unlinked, transcripts,
                    detectedLanguage, prompt, attempt, inFlight, waits, called,
                    chunkSize, lastStep >>

\* what the service raises to the route: process_video turns every exception
\* into OrchestrationError, transcribe_only lets the exception through
ServiceRaises(ep, o) ==
    IF ep = "generate-titles" THEN Raised("OrchestrationError", o.reason) ELSE o

\* generate_titles and transcribe_video: OrchestrationError gives 400, every
\* other exception (an HTTPException of the service too) gives 500
RouteStatus(ep, o) ==
    IF o.kind = "result" THEN 200
    ELSE IF ServiceRaises(ep, o).type = "OrchestrationError" THEN 400
    ELSE 500

\* the route answers
Respond ==
    /\ pc \in {"done", "failed"}
    /\ status = 0
    /\ status' = RouteStatus(endpoint, outcome)
    /\ UNCHANGED << pc, endpoint, procs, fsys, scenario, videoSize, timeout,
                    videoProbe, probeOk, reportedDuration, firstLanguage,
                    segments, legacyBackoff, audioSize, audioDuration,
                    audioOnDisk, videoOnDisk, compressedOnDisk, planDuration,
                    plan, totalDuration, idx, chunkFiles, disk, tempDir,
                    unlinked, transcripts, detectedLanguage, prompt, attempt,
                    inFlight, waits, called, chunkSize, lastStep, outcome >>

\* a request to one of the two routes, before the upload is saved
RouterInit ==
    /\ endpoint \in Endpoints
    /\ status = 0
    /\ videoOnDisk = FALSE
    /\ procs = <<>>
    /\ fsys = <<>>
    /\ scenario = "routes"
    /\ videoSize \in UploadSizes
    /\ timeout = 0
    /\ videoProbe = NoOutcome
    /\ probeOk = <<>>
    /\ reportedDuration = Zero
    /\ firstLanguage = NoLang
    /\ segments = <<>>
    /\ pc = "upload"
    /\ legacyBackoff \in BOOLEAN
    /\ audioSize = 0
    /\ audioDuration = Zero
    /\ audioOnDisk = FALSE
    /\ compressedOnDisk = FALSE
    /\ planDuration = Zero
    /\ plan = <<>>
    /\ totalDuration = Zero
    /\ idx = 0
    /\ chunkFiles = <<>>
    /\ disk = {}
    /\ tempDir = "none"
    /\ unlinked = <<>>
    /\ transcripts = <<>>
    /\ detectedLanguage = NoLang
    /\ prompt = <<>>
    /\ attempt = 0
    /\ inFlight = 0
    /\ waits = <<>>
    /\ called = {}
    /\ chunkSize = 0
    /\ lastStep = "none"
    /\ outcome = NoOutcome

RouterNext ==
    \/ SaveUpload
    \/ Next
    \/ GenerateTitles
    \/ Respond

RouterSpec == RouterInit /\ [][RouterNext]_vars

----------------------------------------------------------------------------
(* Two invocations at the same time, on one file system *)

\* the two invocations; invocation p works on asset p, whose bytes are p
Invocations == {1, 2}

\* values of uuid.uuid4().hex[:12]
UniqueIds == {"0a1b2c3d4e5f", "6f7e8d9c0b1a"}

\* allowed extensions of the uploads
Extensions == {"mp4", "mov"}

\* names tempfile.mkdtemp(prefix="whisper_chunks_") can return
ChunkDirs == {"whisper_chunks_a", "whisper_chunks_b"}

\* the number of chunks every invocation of this specification cuts
ConcurrentChunks == 2

\* self.upload_dir / f"{unique_id}.{ext}"
UploadPath(id, ext) == [dir |-> "uploads", name |-> << id, ".", ext >>]

\* Path.stem of the uploaded file
Stem(path) == path.name[1]

\* faulty variant: the audio of every video is written to one fixed name
AudioPathFixedName(videoPath) ==
    [dir |-> "tmp", name |-> << "audio", "_audio", ".ogg" >>]

\* self.output_dir / f"{video_path.stem}_audio{extension}", output_dir being
\* tempfile.gettempdir()
AudioPath(videoPath) ==
    [dir |-> "tmp", name |-> << Stem(videoPath), "_audio", ".ogg" >>]

\* f"{chunk_index:03d}"
ChunkNumber(i) == IF i = 0 THEN "000" ELSE IF i = 1 THEN "001" ELSE "002"

\* output_dir / f"chunk_{chunk_index:03d}.ogg"
ChunkPath(dir, i) == [dir |-> dir, name |-> << "chunk_", ChunkNumber(i), ".ogg" >>]

\* an invocation that has not started
IdleProc ==
    [pc |-> "upload", video |-> UploadPath("", ""), audio |-> UploadPath("", ""),
     dir |-> "none", i |-> 0, texts |-> <<>>, failed |-> FALSE, foreign |-> FALSE]

Exists(path) == path \in DOMAIN fsys

\* the path exists and was last written by another invocation
Foreign(p, path) == Exists(path) /\ fsys[path].owner # p

\* open(path, "wb") and ffmpeg -y: the file is created or overwritten
WriteFile(p, path, data) ==
    [q \in DOMAIN fsys \cup {path} |->
        IF q = path THEN [owner |-> p, data |-> data] ELSE fsys[q]]

\* path.unlink() of the paths that exist
Unlink(paths) == [q \in DOMAIN fsys \ paths |-> fsys[q]]

\* the variables of the single invocation
pipelineVars ==
    << pc, legacyBackoff, audioSize, audioDuration, audioOnDisk,
       compressedOnDisk, planDuration, plan, totalDuration, idx, chunkFiles,
       disk, tempDir, unlinked, transcripts, detectedLanguage, prompt, attempt,
       inFlight, waits, called, chunkSize, lastStep, outcome, scenario,
       videoSize, timeout, videoProbe, probeOk, reportedDuration,
       firstLanguage, segments, endpoint, status, videoOnDisk >>

\* save_upload: the name is drawn, the stream is written under it
ConcurrentSaveUpload(p) ==
    /\ UNCHANGED pipelineVars
    /\ procs[p].pc = "upload"
    /\ \E id \in UniqueIds, ext \in Extensions :
         LET path == UploadPath(id, ext)
         IN  /\ procs' = [procs EXCEPT ![p].pc = "extract",
                                       ![p].video = path,
                                       ![p].foreign = Foreign(p, path)]
             /\ fsys' = WriteFile(p, path, p)

\* extract_audio: ffmpeg reads the video and writes the audio, overwriting; a
\* video that is gone makes ffmpeg fail, and audio_path stays None
ConcurrentExtractAudio(p) ==
    /\ UNCHANGED pipelineVars
    /\ procs[p].pc = "extract"
    /\ LET v == procs[p].video
           a == AudioPath(v)
       IN  IF Exists(v)
           THEN /\ procs' = [procs EXCEPT
                       ![p].pc = "mkdtemp",
                       ![p].audio = a,
                       ![p].foreign = @ \/ Foreign(p, v) \/ Foreign(p, a)]
                /\ fsys' = WriteFile(p, a, fsys[v].data)
           ELSE /\ procs' = [procs EXCEPT ![p].pc = "finally",
                                          ![p].failed = TRUE]
                /\ fsys' = fsys

\* tempfile.mkdtemp: a directory that does not exist is created
ConcurrentMkdtemp(p) ==
    /\ UNCHANGED pipelineVars
    /\ procs[p].pc = "mkdtemp"
    /\ \E d \in ChunkDirs :
         /\ \A q \in Invocations : procs[q].dir # d
         /\ procs' = [procs EXCEPT ![p].pc = "chunk", ![p].dir = d]
    /\ fsys' = fsys

\* one turn of the loop: the chunk is cut out of the audio into the chunk
\* directory and its transcript is kept
ConcurrentChunk(p) ==
    /\ UNCHANGED pipelineVars
    /\ procs[p].pc = "chunk"
    /\ LET a == procs[p].audio
           c == ChunkPath(procs[p].dir, procs[p].i)
       IN  IF Exists(a)
           THEN /\ procs' = [procs EXCEPT
                       ![p].i = @ + 1,
                       ![p].texts = Append(@, fsys[a].data),
                       ![p].pc = IF procs[p].i + 1 = ConcurrentChunks
                                 THEN "rmchunks" ELSE "chunk",
                       ![p].foreign = @ \/ Foreign(p, a) \/ Foreign(p, c)]
                /\ fsys' = WriteFile(p, c, fsys[a].data)
           ELSE /\ procs' = [procs EXCEPT ![p].pc = "rmchunks",
                                          ![p].failed = TRUE]
                /\ fsys' = fsys

\* the finally block of _transcribe_with_chunking: the chunk files and the
\* chunk directory are removed
ConcurrentRemoveChunks(p) ==
    /\ UNCHANGED pipelineVars
    /\ procs[p].pc = "rmchunks"
    /\ LET files == { ChunkPath(procs[p].dir, i) : i \in 0 .. procs[p].i - 1 }
       IN  /\ procs' = [procs EXCEPT
                  ![p].pc = "finally",
                  ![p].dir = "none",
                  ![p].foreign = @ \/ \E c \in files : Foreign(p, c)]
           /\ fsys' = Unlink(files)

\* the finally block of the service: the audio (if audio_path was set) and the
\* video are removed if they exist
ConcurrentFinally(p) ==
    /\ UNCHANGED pipelineVars
    /\ procs[p].pc = "finally"
    /\ LET files == {procs[p].video} \cup
                    (IF procs[p].audio = IdleProc.audio THEN {} ELSE {procs[p].audio})
       IN  /\ procs' = [procs EXCEPT
                  ![p].pc = IF procs[p].failed THEN "failed" ELSE "done",
                  ![p].foreign = @ \/ \E f \in files : Foreign(p, f)]
           /\ fsys' = Unlink(files)

ConcurrentInit ==
    /\ procs = [p \in Invocations |-> IdleProc]
    /\ fsys = << >>
    /\ endpoint = "transcribe"
    /\ status = 0
    /\ videoOnDisk = FALSE
    /\ scenario = "concurrent"
    /\ videoSize = 1
    /\ timeout = 0
    /\ videoProbe = NoOutcome
    /\ probeOk = <<>>
    /\ reportedDuration = Zero
    /\ firstLanguage = NoLang
    /\ segments = <<>>
    /\ pc = "concurrent"
    /\ legacyBackoff = FALSE
    /\ audioSize = 0
    /\ audioDuration = Zero
    /\ audioOnDisk = FALSE
    /\ compressedOnDisk = FALSE
    /\ planDuration = Zero
    /\ plan = <<>>
    /\ totalDuration = Zero
    /\ idx = 0
    /\ chunkFiles = <<>>
    /\ disk = {}
    /\ tempDir = "none"
    /\ unlinked = <<>>
    /\ transcripts = <<>>
    /\ detectedLanguage = NoLang
    /\ prompt = <<>>
    /\ attempt = 0
    /\ inFlight = 0
    /\ waits = <<>>
    /\ called = {}
    /\ chunkSize = 0
    /\ lastStep = "none"
    /\ outcome = NoOutcome

ConcurrentNext ==
    \/ \E p \in Invocations : ConcurrentSaveUpload(p)
    \/ \E p \in Invocations : ConcurrentExtractAudio(p)
    \/ \E p \in Invocations : ConcurrentMkdtemp(p)
    \/ \E p \in Invocations : ConcurrentChunk(p)
    \/ \E p \in Invocations : ConcurrentRemoveChunks(p)
    \/ \E p \in Invocations : ConcurrentFinally(p)

ConcurrentSpec == ConcurrentInit /\ [][ConcurrentNext]_vars

----------------------------------------------------------------------------
(* The audio extraction module on its own *)

\* AudioExtractionModule.get_video_duration on the uploaded video
ProbeVideo ==
    /\ pc = "start"
    /\ videoProbe = NoOutcome
    /\ \E o \in ProbeOutcomes, d \in Durations :
         videoProbe' = GetVideoDuration(o, d)
    /\ UNCHANGED << endpoint, status, procs, fsys >>
    /\ UNCHANGED << pc, legacyBackoff, audioSize, audioDuration, audioOnDisk, videoOnDisk,
                    compressedOnDisk, planDuration, plan, totalDuration, idx,
                    chunkFiles, disk, tempDir, unlinked, transcripts,
                    detectedLanguage, prompt, attempt, inFlight, waits, called,
                    chunkSize, lastStep, outcome, scenario, videoSize, timeout,
                    probeOk, reportedDuration, firstLanguage, segments >>

ExtractionNext ==
    \/ ProbeVideo
    \/ Transcode

ExtractionSpec == ExtractionInit /\ [][ExtractionNext]_vars

----------------------------------------------------------------------------
(* The merge on its own: the end of the chunk loop for any list of texts *)

HelloWorld ==
    << "H", "e", "l", "l", "o", " ", "w", "o", "r", "l", "d", "." >>
ThisIsChunkTwo ==
    << "T", "h", "i", "s", " ", "i", "s", " ", "c", "h", "u", "n", "k", " ",
       "t", "w", "o", "." >>
FinalChunkText ==
    << "F", "i", "n", "a", "l", " ", "c", "h", "u", "n", "k", " ", "t", "e",
       "x", "t", "." >>

\* stripped texts of a chunk: one word, two words, words three spaces apart,
\* words two newlines apart, a space and a tab between words, and three sentences
SegmentTexts ==
    { <<"a">>, <<"b", " ", "c">>, <<"d", " ", " ", " ", "e">>,
      <<"f", "\n", "\n", "g">>, <<"h", " ", "\t", "i">>,
      HelloWorld, ThisIsChunkTwo, FinalChunkText }

\* transcripts after the loop: the texts that are not empty, in chunk order
NonEmpty(texts) == SelectSeq(texts, LAMBDA t : t # <<>>)

\* The state when the loop over MaxSegments chunks has ended: every chunk was
\* extracted and transcribed, its text was empty or one of SegmentTexts
MergeInit ==
    /\ endpoint = "transcribe"
    /\ status = 0
    /\ videoOnDisk = TRUE
    /\ procs = <<>>
    /\ fsys = <<>>
    /\ scenario = "sizes"
    /\ videoSize = 2 * MB_PER_GB
    /\ timeout = CalculateTimeout(videoSize)
    /\ videoProbe = NoOutcome
    /\ probeOk = << TRUE, TRUE >>
    /\ reportedDuration = Zero
    /\ firstLanguage = NoLang
    /\ segments \in [ 1..MaxSegments -> SegmentTexts \cup {<<>>} ]
    /\ pc = "merge"
    /\ legacyBackoff = FALSE
    /\ audioSize = (MaxSegments - 1) * TARGET_CHUNK_SIZE_MB * MB + 1
    /\ audioDuration = Rat(MAX_CHUNK_DURATION_SECONDS)
    /\ audioOnDisk = TRUE
    /\ compressedOnDisk = FALSE
    /\ planDuration = audioDuration
    /\ plan = CalculateChunks(planDuration, audioSize)
    /\ totalDuration = audioDuration
    /\ idx = MaxSegments
    /\ chunkFiles = [ k \in 1..MaxSegments |-> k - 1 ]
    /\ disk = 0..(MaxSegments - 1)
    /\ tempDir = "exists"
    /\ unlinked = <<>>
    /\ transcripts = NonEmpty(segments)
    /\ detectedLanguage = FALLBACK_LANGUAGE
    /\ prompt = ContinuityPrompt(NonEmpty(SubSeq(segments, 1, MaxSegments - 1)))
    /\ attempt = 1
    /\ inFlight = 0
    /\ waits = <<>>
    /\ called = 0..(MaxSegments - 1)
    /\ chunkSize = MAX_FILE_SIZE_MB * MB
    /\ lastStep = "call_ok"
    /\ outcome = NoOutcome

MergeSpec == MergeInit /\ [][Merge]_vars

----------------------------------------------------------------------------
(* Properties *)

\* _calculate_chunks has returned in this invocation
Planned ==
    /\ pc \notin {"start", "transcribe", "plan"}
    /\ ~(pc = "failed" /\ outcome.reason \in
            {"nonzero", "timeout", "no_output", "not_configured"})

MultiChunk == Planned /\ Len(plan) > 1

\* C1: every chunk plan has at least one chunk, its first chunk starts at 0,
\* each chunk starts exactly where the previous one ends, and the chunk
\* durations sum to the probed total duration.
C1_PlanIsPartition ==
    Planned =>
        /\ Len(plan) >= 1
        /\ plan[1].start = Zero
        /\ \A k \in 1..(Len(plan) - 1) :
               plan[k + 1].start = RAdd(plan[k].start, plan[k].duration)
        /\ SumDurations(plan, Len(plan)) = planDuration

\* a three-chunk plan whose chunk boundaries are not whole seconds
C1_Witness ==
    /\ Planned
    /\ Len(plan) = 3
    /\ plan[2].start[2] # 1
    /\ plan[3].duration # Zero

\* C2 (as claimed): an audio of at most MAX_FILE_SIZE_MB is planned as exactly
\* one chunk spanning [0, total duration].
C2_SingleChunkUpToCeiling ==
    (Planned /\ audioSize <= MAX_FILE_SIZE_MB * MB) =>
        plan = << [start |-> Zero, duration |-> planDuration] >>

\* C3: when the planner splits, the chunk count is the larger of
\* ceil(size / target chunk size) and ceil(duration / maximal chunk duration),
\* every chunk but the last lasts total / count and starts at i * total / count,
\* and the last chunk lasts total minus its start, ending at the total.
C3_SplitIsEven ==
    MultiChunk =>
        LET n == Len(plan)
            target == TARGET_CHUNK_SIZE_MB * MB
            fits(m) == /\ m * target >= audioSize
                       /\ RLe(planDuration, Rat(m * MAX_CHUNK_DURATION_SECONDS))
        IN  /\ fits(n)
            /\ ~fits(n - 1)
            /\ \A k \in 1..(n - 1) :
                   /\ RMulInt(n, plan[k].duration) = planDuration
                   /\ RMulInt(n, plan[k].start) = RMulInt(k - 1, planDuration)
            /\ plan[n].duration = RSub(planDuration, plan[n].start)
            /\ RMulInt(n, plan[n].start) = RMulInt(n - 1, planDuration)
            /\ RAdd(plan[n].start, plan[n].duration) = planDuration

\* a split decided by the duration, not by the size
C3_Witness ==
    /\ MultiChunk
    /\ Len(plan) = 3
    /\ audioSize <= 2 * TARGET_CHUNK_SIZE_MB * MB
    /\ planDuration = Rat(2 * MAX_CHUNK_DURATION_SECONDS + 1)

\* C4 (as claimed): when the probed duration is 0 the plan has a single chunk,
\* whatever the audio size.
C4_DegradedProbeSingleChunk ==
    (Planned /\ planDuration = Zero) => Len(plan) = 1

\* C5: an extracted chunk above the remote ceiling ends the invocation with the
\* chunk-too-large error; neither that chunk nor a later one is sent to the
\* remote service, and the chunk is not extracted again.
C5_OversizedChunkNeverSent ==
    chunkSize > MAX_FILE_SIZE_MB * MB =>
        /\ pc = "failed"
        /\ outcome = Raised("TranscriptionError", "chunk_too_large")
        /\ \A k \in called : k < idx
        /\ inFlight = 0
        /\ chunkFiles = [k \in 1..(idx + 1) |-> k - 1]

\* the second chunk comes out oversized after the first was transcribed
C5_Witness ==
    /\ chunkSize > MAX_FILE_SIZE_MB * MB
    /\ lastStep = "chunk_too_large"
    /\ idx = 1
    /\ called = {0}

\* C6 (as claimed): when a chunked transcription ends, on any path, no chunk
\* file remains on disk, the chunk directory is removed, and no file was
\* deleted twice.
C6_ChunkFilesDeletedOnce ==
    (MultiChunk /\ pc \in {"done", "failed"}) =>
        /\ disk = {}
        /\ tempDir = "removed"
        /\ \A a, b \in DOMAIN unlinked : unlinked[a] = unlinked[b] => a = b
        /\ Range(unlinked) = Range(chunkFiles)

FailedSteps ==
    {"transcode_failed", "compress_failed", "extract_failed", "chunk_too_large",
     "retries_exhausted"}

\* C7: a failed transcode, chunk extraction, chunk size check or remote call
\* (after its retries) ends the invocation in failure with no TranscriptResult;
\* a TranscriptResult is returned only when every planned chunk was extracted
\* and transcribed.
C7_FailFast ==
    /\ lastStep \in FailedSteps => (pc = "failed" /\ outcome.kind = "error")
    /\ pc = "failed" => outcome.kind = "error"
    /\ outcome.kind = "result" =>
           /\ pc = "done"
           /\ lastStep = "call_ok"
           /\ called = 0..(Len(plan) - 1)
           /\ Len(plan) > 1 =>
                  /\ chunkFiles = [k \in 1..Len(plan) |-> k - 1]
                  /\ idx = Len(plan)
                  /\ chunkSize <= MAX_FILE_SIZE_MB * MB

\* the remote call of the second chunk fails for good after the first chunk
\* gave a text
C7_Witness ==
    /\ pc = "failed"
    /\ lastStep = "retries_exhausted"
    /\ idx = 1
    /\ transcripts # <<>>

LetterIndex(c) == CHOOSE k \in 1..Len(Letters) : Letters[k] = c

\* the letters of a text come in the order of the chunks they stand for
InChunkOrder(text) ==
    \A a, b \in DOMAIN text :
        (a < b /\ text[a] \notin Whitespace /\ text[b] \notin Whitespace)
            => LetterIndex(text[a]) < LetterIndex(text[b])

\* C8: chunks are extracted and transcribed in increasing index order, at most
\* one remote call is in flight, the call of a chunk starts only after the
\* calls of all earlier chunks returned, and the merged text keeps chunk order.
C8_SequentialInOrder ==
    /\ inFlight \in {0, 1}
    /\ inFlight = 1 <=> pc = "inflight"
    /\ MultiChunk =>
           /\ chunkFiles = [k \in 1..Len(chunkFiles) |-> k - 1]
           /\ Len(chunkFiles) \in {idx, idx + 1}
           /\ 0..(idx - 1) \subseteq called
           /\ called \subseteq 0..idx
           /\ idx \in called => Len(chunkFiles) = idx + 1
           /\ pc = "inflight" => idx \in called
           /\ InChunkOrder(Join(transcripts))
           /\ outcome.kind = "result" => InChunkOrder(outcome.text)

\* three chunks, each with a text, merged
C8_Witness ==
    /\ pc = "done"
    /\ Len(plan) = 3
    /\ outcome.text = <<"a", " ", "b", " ", "c">>

RECURSIVE SumSeq(_)
SumSeq(q) == IF q = <<>> THEN 0 ELSE Head(q) + SumSeq(Tail(q))

\* C9: a remote call is attempted at most 3 times and not again once it
\* succeeded; when all 3 attempts fail the invocation fails with the
\* TranscriptionError of transcribe(); a backoff wait is slept only between two
\* attempts of the call, and each wait is between 2 s and 10 s.
C9_BoundedRetries ==
    /\ attempt \in 0..3
    /\ Len(waits) = (IF pc = "retry" THEN attempt ELSE Max(attempt - 1, 0))
    /\ \A k \in DOMAIN waits : waits[k] >= 2 /\ waits[k] <= 10
    /\ pc \in {"backoff", "retry"} => (lastStep = "call_error" /\ attempt < 3)
    /\ lastStep = "retries_exhausted" =>
           /\ attempt = 3
           /\ pc = "failed"
           /\ outcome = Raised("TranscriptionError", "transcription_failed")
    /\ lastStep = "call_ok" =>
           /\ pc \in {"extract", "merge", "done", "failed"}
           /\ (MultiChunk /\ pc = "extract") => idx \notin called

\* all three attempts of the second chunk's call failed
C9_Witness ==
    /\ lastStep = "retries_exhausted"
    /\ attempt = 3
    /\ Len(waits) = 2
    /\ idx = 1

\* the remote call failed on attempts 1 and 2 and returned on attempt 3
SucceededOnThird == lastStep = "call_ok" /\ attempt = 3

\* C10 (as claimed): a call that succeeds on attempt 3 made exactly 3 attempts
\* and waited at least 2 s + 4 s = 6 s of backoff.
C10_BackoffAtLeastSix ==
    SucceededOnThird => (Len(waits) = 2 /\ SumSeq(waits) >= 6)

\* C10 (amended): a call that succeeds on attempt 3 made exactly 3 attempts,
\* waited twice, each wait at least the 2 s minimum: at least 4 s in all.
C10_BackoffAtLeastFour ==
    SucceededOnThird =>
        /\ Len(waits) = 2
        /\ waits[1] >= 2
        /\ waits[2] >= 2
        /\ SumSeq(waits) >= 4

\* success on the third attempt after waits of 2 s and 2 s
C10_Witness ==
    /\ SucceededOnThird
    /\ waits = <<2, 2>>

----------------------------------------------------------------------------
(* The merge *)

\* the multi-chunk path returned a result
Merged == pc = "done" /\ outcome.kind = "result" /\ Len(plan) > 1

\* s without every space that is followed by a space
RECURSIVE SpaceRunsCollapsed(_)
SpaceRunsCollapsed(s) ==
    IF Len(s) < 2 THEN s
    ELSE IF s[1] = " " /\ s[2] = " " THEN SpaceRunsCollapsed(Tail(s))
    ELSE <<s[1]>> \o SpaceRunsCollapsed(Tail(s))

\* two whitespace characters in a row
HasWhitespaceRun(s) ==
    \E k \in 1..(Len(s) - 1) : s[k] \in Whitespace /\ s[k + 1] \in Whitespace

RECURSIVE SumWordCounts(_)
SumWordCounts(texts) ==
    IF texts = <<>> THEN 0
    ELSE WordCount(Head(texts)) + SumWordCounts(Tail(texts))

\* C11 (as claimed): the merged text is the segment texts joined in order with
\* single spaces, no run of repeated whitespace remains in it, and word_count
\* is the sum of the word counts of the segments.
C11_MergeNoWhitespaceRun ==
    Merged =>
        /\ outcome.text = SpaceRunsCollapsed(Join(transcripts))
        /\ ~HasWhitespaceRun(outcome.text)
        /\ outcome.word_count = SumWordCounts(transcripts)

\* C11 (amended): the merged text is the segment texts joined in order with
\* single spaces and every run of spaces collapsed to one space (no two spaces
\* in a row remain; other whitespace is left as it is), and word_count is the
\* sum of the word counts of the segments.
C11_MergeNoSpaceRun ==
    Merged =>
        /\ outcome.text = SpaceRunsCollapsed(Join(transcripts))
        /\ ~HasDoubleSpace(outcome.text)
        /\ outcome.word_count = SumWordCounts(transcripts)

\* three segments were merged, one with three spaces in a row inside, one with
\* two newlines in a row inside
C11_Witness ==
    /\ Merged
    /\ Len(transcripts) = 3
    /\ \E k \in 1..3 : HasDoubleSpace(transcripts[k])
    /\ \E k \in 1..3 : HasWhitespaceRun(transcripts[k]) /\ ~HasDoubleSpace(transcripts[k])

\* the three sentences were transcribed, in this order
ThreeSentences == transcripts = << HelloWorld, ThisIsChunkTwo, FinalChunkText >>

\* "Hello world. This is chunk two. Final chunk text."
MergedSentences ==
    << "H", "e", "l", "l", "o", " ", "w", "o", "r", "l", "d", ".", " ", "T",
       "h", "i", "s", " ", "i", "s", " ", "c", "h", "u", "n", "k", " ", "t",
       "w", "o", ".", " ", "F", "i", "n", "a", "l", " ", "c", "h", "u", "n",
       "k", " ", "t", "e", "x", "t", "." >>

\* C12 (as claimed): merging "Hello world.", "This is chunk two." and "Final
\* chunk text." gives "Hello world. This is chunk two. Final chunk text." with
\* word_count = 10.
C12_ThreeSentencesTenWords ==
    (Merged /\ ThreeSentences) =>
        (outcome.text = MergedSentences /\ outcome.word_count = 10)

\* C12 (amended): merging the three sentences gives "Hello world. This is chunk
\* two. Final chunk text." with word_count = 9 (2 + 4 + 3 words).
C12_ThreeSentencesNineWords ==
    (Merged /\ ThreeSentences) =>
        (outcome.text = MergedSentences /\ outcome.word_count = 9)

\* the three sentences have been merged into a result
C12_Witness == Merged /\ ThreeSentences /\ outcome.word_count > 0

----------------------------------------------------------------------------
(* The fields of the result *)

\* transcribe returned a TranscriptResult
Returned == pc = "done" /\ outcome.kind = "result"

\* C13 (as claimed): the duration_seconds of every result, single-chunk or
\* multi-chunk, is the locally probed duration, never one the remote service
\* reported.
C13_DurationIsProbed ==
    Returned => outcome.duration_seconds = totalDuration

\* C13 (amended): the duration_seconds of a multi-chunk result is the locally
\* probed duration; that of a single-chunk result is the duration the remote
\* service reported when that is not zero, and the probed duration otherwise.
C13_DurationProbedOrReported ==
    Returned =>
        IF Len(plan) > 1
        THEN outcome.duration_seconds = totalDuration
        ELSE outcome.duration_seconds =
                 (IF reportedDuration # Zero THEN reportedDuration ELSE totalDuration)

\* a single-chunk result whose remote call reported no duration, so that the
\* probed one, which is not zero, was used
C13_Witness ==
    /\ Returned
    /\ Len(plan) = 1
    /\ reportedDuration = Zero
    /\ totalDuration # Zero
    /\ outcome.duration_seconds = totalDuration

\* C14: the language of the result is the first language the remote service
\* reported among the segments in chunk order, 'en' when no segment reported
\* one; a language reported later never replaces one reported earlier.
C14_FirstReportedLanguage ==
    Returned =>
        outcome.language =
            (IF firstLanguage = NoLang THEN FALLBACK_LANGUAGE ELSE firstLanguage)

----------------------------------------------------------------------------
(* The audio extraction *)

\* extract_audio has computed its timeout and run ffmpeg
Extracted == pc # "start"

\* the examples, the bounds and the monotonicity of the timeout
TimeoutExamplesAndBounds ==
    /\ videoSize = 2 * MB_PER_GB => timeout = 660
    /\ videoSize = 20 * MB_PER_GB => timeout = 3600
    /\ timeout >= 300
    /\ timeout <= 3600
    /\ \A smaller \in VideoSizes :
         smaller <= videoSize => CalculateTimeout(smaller) <= timeout

\* C15 (as claimed): the timeout is min(3600, 300 + 180 * size_in_GB) seconds
\* for every size (compared here in units of 1/1024 s, the size being in MiB);
\* 2 GB gives 660 s, 20 GB gives 3600 s; it is never below 300 s nor above
\* 3600 s and does not decrease when the size grows.
C15_TimeoutExact ==
    Extracted =>
        /\ timeout * MB_PER_GB =
               Min(3600 * MB_PER_GB, 300 * MB_PER_GB + 180 * videoSize)
        /\ TimeoutExamplesAndBounds

\* C15 (amended): the timeout is min(3600, 300 + 180 * size_in_GB) with the
\* fraction of a second of 180 * size_in_GB dropped; 2 GB gives 660 s, 20 GB
\* gives 3600 s; it is never below 300 s nor above 3600 s and does not
\* decrease when the size grows.
C15_TimeoutWholeSeconds ==
    Extracted =>
        /\ IF 300 * MB_PER_GB + 180 * videoSize >= 3600 * MB_PER_GB
           THEN timeout = 3600
           ELSE /\ timeout * MB_PER_GB <= 300 * MB_PER_GB + 180 * videoSize
                /\ (timeout + 1) * MB_PER_GB > 300 * MB_PER_GB + 180 * videoSize
        /\ TimeoutExamplesAndBounds

\* ffmpeg ran on a video of 2 GB and 1 MiB with a timeout of 660 s
C15_Witness ==
    /\ Extracted
    /\ videoSize = 2 * MB_PER_GB + 1
    /\ timeout = 660

\* C16: extract_audio raises AudioExtractionError when ffmpeg exits non-zero
\* (or is killed at the timeout) and when it exits 0 but the output file is
\* absent or empty; it returns the path only when the output exists and is
\* not empty.
C16_TranscoderChecksOutput ==
    /\ lastStep = "transcode_failed" =>
           (pc = "failed" /\ outcome = Raised("AudioExtractionError", outcome.reason))
    /\ lastStep = "transcode_ok" =>
           (pc = "transcribe" /\ audioOnDisk /\ audioSize > 0)

\* every chunk of the plan was transcribed and the invocation has ended
AllCallsSucceeded ==
    /\ pc \in {"done", "failed"}
    /\ lastStep = "call_ok"
    /\ Len(segments) = Len(plan)

\* C17: when every remote call succeeded and every segment text is empty, the
\* invocation fails with the empty-transcript error; no result with an empty or
\* whitespace-only text is ever returned.
C17_NeverEmptyResult ==
    /\ (AllCallsSucceeded /\ \A k \in DOMAIN segments : segments[k] = <<>>) =>
           (pc = "failed" /\ outcome = Raised("TranscriptionError", "empty_result"))
    /\ Returned => Strip(outcome.text) # <<>>

\* three chunks were transcribed, each to an empty text, and the invocation
\* failed with the empty-transcript error
C17_Witness ==
    /\ AllCallsSucceeded
    /\ Len(plan) = 3
    /\ transcripts = <<>>
    /\ outcome = Raised("TranscriptionError", "empty_result")

----------------------------------------------------------------------------
(* The probes *)

\* C18: the duration probe never fails: however the run of ffprobe ends, the
\* probe returns a duration, 0.0 when ffprobe did not work, and nothing is
\* raised.
C18_ProbeNeverFails ==
    /\ videoProbe.kind # "error"
    /\ \A k \in DOMAIN probeOk :
         ~probeOk[k] => (IF k = 1 THEN planDuration ELSE totalDuration) = Zero

----------------------------------------------------------------------------
(* The continuity prompt *)

\* the remote call of chunk idx of a multi-chunk plan is being made
InChunkCall == pc \in {"call", "inflight", "backoff", "retry"} /\ Len(plan) > 1

\* p is the last 200 characters of text, the whole text if it is shorter
IsTail(p, text) ==
    /\ Len(p) = Min(Len(text), 200)
    /\ \A k \in 1..Len(p) : p[k] = text[Len(text) - Len(p) + k]

\* C19 (as claimed): the prompt of chunk i > 0 is the last 200 characters (the
\* whole text if shorter) of the text of chunk i - 1; chunk 0 has no prompt.
C19_PromptFromPrecedingChunk ==
    InChunkCall =>
        IF idx = 0 THEN prompt = <<>> ELSE IsTail(prompt, segments[idx])

\* C19 (amended): the prompt of chunk i > 0 is the last 200 characters of the
\* most recent non-empty text among the chunks before i, when that text has
\* more than 50 characters; otherwise, and for chunk 0, there is no prompt.
C19_PromptFromLastLongText ==
    InChunkCall =>
        LET earlier == NonEmpty(segments)
            last    == earlier[Len(earlier)]
        IN  IF earlier # <<>> /\ Len(last) > 50
            THEN IsTail(prompt, last)
            ELSE prompt = <<>>

\* chunk 2 is sent with the last 200 characters of the 201 of chunk 0's text,
\* chunk 1's text being empty
C19_Witness ==
    /\ InChunkCall
    /\ idx = 2
    /\ segments[2] = <<>>
    /\ Len(segments[1]) = 201
    /\ Len(prompt) = 200
    /\ prompt[1] # segments[1][1]

\* _transcribe_with_chunking has probed the audio twice: once inside
\* _calculate_chunks, once on its own
ProbedTwice == Len(probeOk) = 2

\* C20 (as claimed): two probes of the same unmodified audio return the same
\* duration, whatever the timing of ffprobe.
C20_ProbesAgree ==
    ProbedTwice => planDuration = totalDuration

\* C20 (amended): two probes of the same unmodified audio return the same
\* duration when ffprobe ends the same way in both; a probe in which ffprobe
\* works returns the file's duration, one in which it fails or times out
\* returns 0.0.
C20_ProbesAgreeOnSameOutcome ==
    ProbedTwice =>
        /\ probeOk[1] = probeOk[2] => planDuration = totalDuration
        /\ planDuration = (IF probeOk[1] THEN audioDuration ELSE Zero)
        /\ totalDuration = (IF probeOk[2] THEN audioDuration ELSE Zero)

\* ffprobe worked in both probes, which returned the same non-zero duration
C20_Witness ==
    /\ ProbedTwice
    /\ probeOk = << TRUE, TRUE >>
    /\ planDuration = totalDuration
    /\ planDuration # Zero

----------------------------------------------------------------------------
(* The order of the phases *)

\* the phase a position belongs to: 1 transcoding (extract_audio), 2 planning
\* (transcribe up to the chunk plan), 3 the chunk loop (extraction and remote
\* call of each chunk in turn), 4 merging, 5 the end
Phase(p) ==
    CASE p = "start" -> 1
      [] p \in {"transcribe", "plan"} -> 2
      [] p \in {"extract", "call", "inflight", "backoff", "retry"} -> 3
      [] p = "merge" -> 4
      [] OTHER -> 5

Terminal == pc \in {"done", "failed"}

----------------------------------------------------------------------------
(* What is left on disk *)

\* C23: when the invocation has ended, on whatever path, the compressed audio
\* file does not exist any more.
C23_AudioGoneAtEnd ==
    Terminal => ~audioOnDisk

\* C24 (as claimed): a chunk's file is deleted as soon as its text was taken:
\* while chunk idx is extracted or transcribed no file of an earlier chunk
\* exists, so at most one chunk file exists at any time.
C24_OneChunkFileAtATime ==
    (MultiChunk /\ ~Terminal) =>
        /\ \A j \in disk : j >= idx
        /\ Cardinality(disk) <= 1

\* C24 (amended): the chunk files are kept during the whole loop: while chunk
\* idx is extracted or transcribed (and at the merge) the file of every
\* earlier chunk still exists; the files of chunk_files are deleted together
\* when the loop is left, after the merge or on a failure.
C24_ChunkFilesKeptUntilEnd ==
    /\ (MultiChunk /\ ~Terminal) => \A j \in 0..(idx - 1) : j \in disk
    /\ (MultiChunk /\ Terminal) => Range(chunkFiles) \cap disk = {}

\* the third chunk is being transcribed while the files of all three exist
C24_Witness ==
    /\ MultiChunk
    /\ pc = "inflight"
    /\ idx = 2
    /\ disk = {0, 1, 2}

----------------------------------------------------------------------------
(* Plans, durations and empty chunks *)

\* C26: every chunk sent to the remote service lasts at most
\* MAX_CHUNK_DURATION_SECONDS, whatever the size and the probed duration,
\* the chunk of a single-chunk plan included.
C26_ChunkDurationWithinLimit ==
    \A k \in called : RLe(plan[k + 1].duration, Rat(MAX_CHUNK_DURATION_SECONDS))

\* C27: the duration_seconds of a multi-chunk result is the duration the plan
\* covers, the sum of the durations of its chunks.
C27_ResultDurationCoversPlan ==
    (Returned /\ Len(plan) > 1) =>
        outcome.duration_seconds = SumDurations(plan, Len(plan))

\* C28: a chunk transcribed to an empty text does not end the invocation and
\* adds nothing to the merge; the texts kept are the non-empty ones in chunk
\* order; the next prompt comes from the most recent non-empty text, if that
\* has more than 50 characters; the invocation fails for emptiness only when
\* every chunk is empty.
C28_EmptyChunkSkipped ==
    LET kept == NonEmpty(segments)
    IN  /\ Len(plan) > 1 => transcripts = kept
        /\ (InChunkCall /\ kept # <<>>) =>
               prompt = (IF Len(kept[Len(kept)]) > 50
                         THEN LastChars(kept[Len(kept)], 200) ELSE <<>>)
        /\ (Len(plan) > 1 /\ lastStep = "call_ok") =>
               (pc = "failed" <=> (pc \notin {"extract", "merge"} /\ kept = <<>>))
        /\ (Len(plan) > 1 /\ Returned) => outcome.text = MergeText(kept)
        /\ (pc = "failed" /\ outcome.reason = "empty_result") => kept = <<>>

\* a result of three chunks, the second one empty, the third one sent with a
\* prompt taken from the first
C28_Witness ==
    /\ Returned
    /\ Len(segments) = 3
    /\ segments[2] = <<>>
    /\ Len(transcripts) = 2
    /\ prompt = LastChars(segments[1], 200)
    /\ prompt # <<>>

----------------------------------------------------------------------------
(* The HTTP status of the routes *)

Responded == status # 0

\* C25: an upload above the maximum size is answered with status 413 on
\* /generate-titles, its partial file is removed, and neither the extraction
\* nor the transcription is started.
C25_OversizeGives413 ==
    (Responded /\ endpoint = "generate-titles" /\ UploadTooLarge(videoSize)
        /\ outcome.kind = "error" /\ outcome.reason = "too_large") =>
        /\ status = 413
        /\ ~videoOnDisk
        /\ lastStep = "none"
        /\ timeout = 0

\* the failures of the pipeline
PipelineErrors == {"AudioExtractionError", "TranscriptionError"}

\* C30: a failure of the audio extraction or of the transcription is answered
\* with status 400 on /transcribe as on /generate-titles, and status 500 is
\* given only to failures that are neither pipeline nor validation errors.
C30_SameStatusOnBothRoutes ==
    Responded =>
        /\ (outcome.kind = "error" /\ outcome.type \in PipelineErrors) => status = 400
        /\ status = 500 =>
               outcome.type \notin PipelineErrors \cup {"HTTPException"}

----------------------------------------------------------------------------
(* Isolation of concurrent invocations *)

\* the result invocation p returns when it runs alone: the transcripts of the
\* chunks of its own asset
AloneResult(p) == [i \in 1 .. ConcurrentChunks |-> p]

\* the two invocations drew different identifiers for their uploads
DistinctIds ==
    \A p, q \in Invocations :
        (p # q /\ procs[p].pc # "upload" /\ procs[q].pc # "upload") =>
            Stem(procs[p].video) # Stem(procs[q].video)

====
